---- MODULE Spec2Model ----
(***************************************************************************)
(* Model of src/app.py (Cloud Price Compare): the three catalog fetchers   *)
(* fetch_azure / fetch_aws / fetch_gcp, the matcher find_best_match and    *)
(* the "Compare Pricing" button handler.                                   *)
(*                                                                         *)
(* Numbers.  Python ints and floats are held as fixed-point integers: the  *)
(* model value n stands for the number n / Unit.  Every number the model   *)
(* draws is a multiple of 1/Unit, so sums, differences and the products    *)
(* the code forms (price * 83, vcpu * 3.75) are exact.                     *)
(*                                                                         *)
(* JSON scalars.  A value read from a payload is a record [k, v]:          *)
(*   k = "none"  None / key absent                                         *)
(*   k = "num"   a JSON number, value v / Unit                             *)
(*   k = "str"   a string that is the decimal numeral of v / Unit          *)
(*   k = "bad"   a non-empty string that is no numeral                     *)
(*                                                                         *)
(* Text that the code searches with regular expressions (meterName,        *)
(* productName, GCP keys) is a sequence of one-character strings; an       *)
(* absent text and the empty text are both <<>> (the code treats both as   *)
(* falsy wherever it reads one).                                           *)
(***************************************************************************)
EXTENDS Integers, Sequences, FiniteSets, TLC

VARIABLES
    pc,             \* position of the script / of the call under test
    csp_selection,  \* st.multiselect value (line 294)
    vCPU,           \* st.slider value (line 295)
    RAM,            \* st.slider value (line 296)
    results,        \* handler's results list (line 300)
    status_msgs,    \* handler's status_msgs list (line 299)
    inst_list,      \* az_list / aws_list / gcp_list of the block being run
    match,          \* handler's match variable; find_best_match's return value
    raw,            \* the payload the last fetch parsed (what the network sent)
    warnings,       \* st.warning calls so far
    failed,         \* providers whose fetch met a failed request or a non-JSON/empty reply
    url,            \* fetch_azure: the url loop variable (a page number, 0 = None)
    served,         \* fetch_azure: the pages the server has answered with, in order
    requests        \* fetch_azure: the page numbers requested, in order

vars == <<pc, csp_selection, vCPU, RAM, results, status_msgs, inst_list, match,
          raw, warnings, failed, url, served, requests>>

-----------------------------------------------------------------------------
(* Bounds of the model.                                                    *)

MaxInst == 3
MaxPages == 2
MaxItems == 2
MaxProducts == 2
MaxKeys == 2

-----------------------------------------------------------------------------
(* Values.                                                                 *)

Unit == 100

None == [k |-> "none", v |-> 0]
Num(n) == [k |-> "num", v |-> n]
Str(n) == [k |-> "str", v |-> n]
Bad == [k |-> "bad", v |-> 0]

Abs(x) == IF x < 0 THEN -x ELSE x

\* Python truthiness of a JSON scalar: None and 0 are falsy, a non-empty string is truthy.
Truthy(x) == (x.k = "num" /\ x.v # 0) \/ x.k \in {"str", "bad"}

\* float(x) succeeds on numbers and numerals; raises on None and on other strings.
FloatOk(x) == x.k \in {"num", "str"}
FloatOf(x) == x.v

\* int(x) succeeds on numbers (truncating) and on integer numerals only.
IntOk(x) == x.k = "num" \/ (x.k = "str" /\ x.v % Unit = 0)
IntOf(x) == (x.v \div Unit) * Unit

\* isinstance(x, (int, float))
IsNumber(x) == x.k = "num"

\* "a or b" on JSON scalars.
Or(a, b) == IF Truthy(a) THEN a ELSE b

\* "a or b" on strings ("" stands for None and for the empty string).
OrStr(a, b) == IF a # "" THEN a ELSE b

-----------------------------------------------------------------------------
(* Text and the regular expressions of the source.                         *)

Digits == <<"0", "1", "2", "3", "4", "5", "6", "7", "8", "9">>
UpperCase == <<"A", "B", "C", "D", "E", "F", "G", "H", "I", "J", "K", "L", "M",
               "N", "O", "P", "Q", "R", "S", "T", "U", "V", "W", "X", "Y", "Z">>
LowerCase == <<"a", "b", "c", "d", "e", "f", "g", "h", "i", "j", "k", "l", "m",
               "n", "o", "p", "q", "r", "s", "t", "u", "v", "w", "x", "y", "z">>

IsDigit(c) == \E d \in 1..10 : Digits[d] = c
DigitVal(c) == (CHOOSE d \in 1..10 : Digits[d] = c) - 1
IsSpace(c) == c = " "

\* str.lower() on one character, and the case-insensitive comparison of re.IGNORECASE.
LowerChar(c) ==
    IF \E i \in 1..26 : UpperCase[i] = c
    THEN LowerCase[CHOOSE i \in 1..26 : UpperCase[i] = c]
    ELSE c

\* The sub-text lit occurs in s at position p, compared in lower case.
LitAt(s, p, lit) ==
    /\ p >= 1
    /\ p + Len(lit) - 1 <= Len(s)
    /\ \A j \in 1..Len(lit) : LowerChar(s[p + j - 1]) = lit[j]

\* "lit in s.lower()"
ContainsLower(s, lit) == \E p \in 1..Len(s) : LitAt(s, p, lit)

\* s.startswith(lit), case-sensitive
StartsWith(s, lit) ==
    /\ Len(lit) <= Len(s)
    /\ \A j \in 1..Len(lit) : s[j] = lit[j]

\* \d+ is greedy: from a digit at i it takes the whole run of digits.
RunEnd(s, i) ==
    CHOOSE e \in i..Len(s) :
        /\ \A j \in i..e : IsDigit(s[j])
        /\ (e = Len(s) \/ ~IsDigit(s[e + 1]))

\* \s* is greedy: the first position at or after p that holds no white space.
SkipSpace(s, p) ==
    CHOOSE q \in p..(Len(s) + 1) :
        /\ \A j \in p..(q - 1) : IsSpace(s[j])
        /\ (q = Len(s) + 1 \/ ~IsSpace(s[q]))

\* int() of the digits s[i..e], as a fixed-point number.
RECURSIVE DigitsValue(_, _, _)
DigitsValue(s, i, e) ==
    IF e < i THEN 0 ELSE DigitsValue(s, i, e - 1) * 10 + DigitVal(s[e])

\* re.search(r'(\d+)\s*<lit>', s, flags=re.IGNORECASE): the pattern matches at i.
UnitMatchAt(s, i, lit) ==
    /\ IsDigit(s[i])
    /\ LitAt(s, SkipSpace(s, RunEnd(s, i) + 1), lit)

\* int(m.group(1)) of the leftmost match, or None when there is no match.
SearchUnit(s, lit) ==
    IF \E i \in 1..Len(s) : UnitMatchAt(s, i, lit)
    THEN LET i == CHOOSE a \in 1..Len(s) :
                      /\ UnitMatchAt(s, a, lit)
                      /\ \A b \in 1..(a - 1) : ~UnitMatchAt(s, b, lit)
         IN Num(DigitsValue(s, i, RunEnd(s, i)) * Unit)
    ELSE None

\* parse_vcpu_ram_from_meter: <<vcpu, ram>>
parse_vcpu_ram_from_meter(meter_name) ==
    IF meter_name = <<>>
    THEN <<None, None>>
    ELSE <<SearchUnit(meter_name, <<"v", "c", "p", "u">>),
           SearchUnit(meter_name, <<"g", "i", "b">>)>>

-----------------------------------------------------------------------------
(* find_best_match (lines 41-66).                                          *)

\* float('inf'), the initial best_score; real scores are never negative.
Inf == -1

\* Variant of ScoreLess: "<=" in place of "<", so a later record of equal score wins.
ScoreLess_OrEqual(score, best_score) == best_score = Inf \/ score <= best_score

ScoreLess(score, best_score) == best_score = Inf \/ score < best_score

\* Variant of Score: the memory difference divided by a weight of 4 (kept in whole
\* numbers by scaling the sum by 4).
Score_Weighted(inst, req_cpu, req_ram) ==
    4 * Abs(FloatOf(inst.vcpu) - req_cpu) + Abs(FloatOf(inst.memoryGb) - req_ram)

Score(inst, req_cpu, req_ram) ==
    Abs(FloatOf(inst.vcpu) - req_cpu) + Abs(FloatOf(inst.memoryGb) - req_ram)

\* Line 54: the record lacks vcpu or memoryGb and is passed over.
Skipped(inst) == inst.vcpu = None \/ inst.memoryGb = None

\* Lines 57-60: float() raises on one of the two values and the record is passed over.
Unscorable(inst) == ~FloatOk(inst.vcpu) \/ ~FloatOk(inst.memoryGb)

\* Variant of find_loop: no record is passed over, a missing or non-numeric value
\* counting as 0 ("float(cpu or 0)").
RECURSIVE find_loop_NoSkip(_, _, _, _, _, _)
find_loop_NoSkip(instances, i, req_cpu, req_ram, best, best_score) ==
    IF i > Len(instances)
    THEN best
    ELSE IF ScoreLess(Score(instances[i], req_cpu, req_ram), best_score)
         THEN find_loop_NoSkip(instances, i + 1, req_cpu, req_ram,
                               instances[i], Score(instances[i], req_cpu, req_ram))
         ELSE find_loop_NoSkip(instances, i + 1, req_cpu, req_ram, best, best_score)

\* The for loop from index i on, with the loop's best and best_score.
RECURSIVE find_loop(_, _, _, _, _, _)
find_loop(instances, i, req_cpu, req_ram, best, best_score) ==
    IF i > Len(instances)
    THEN best
    ELSE LET inst == instances[i]
         IN  IF Skipped(inst)
             THEN find_loop(instances, i + 1, req_cpu, req_ram, best, best_score)
             ELSE IF Unscorable(inst)
             THEN find_loop(instances, i + 1, req_cpu, req_ram, best, best_score)
             ELSE IF ScoreLess(Score(inst, req_cpu, req_ram), best_score)
             THEN find_loop(instances, i + 1, req_cpu, req_ram,
                            inst, Score(inst, req_cpu, req_ram))
             ELSE find_loop(instances, i + 1, req_cpu, req_ram, best, best_score)

find_best_match(instances, req_cpu, req_ram) ==
    IF instances = <<>>
    THEN None
    ELSE find_loop(instances, 1, req_cpu, req_ram, None, Inf)

-----------------------------------------------------------------------------
(* fetch_azure: one item of a page (lines 91-116).                         *)

\* "a or b" on texts (<<>> stands for None and for the empty text).
OrText(a, b) == IF a # <<>> THEN a ELSE b

\* Lines 93-103: vcpu and ram from meterName, completed from productName.
AzureSpecs(it) ==
    LET first == parse_vcpu_ram_from_meter(OrText(it.meterName, it.productName))
        second == parse_vcpu_ram_from_meter(it.productName)
    IN  IF first[1] = None \/ first[2] = None
        THEN <<IF first[1] = None THEN second[1] ELSE first[1],
               IF first[2] = None THEN second[2] ELSE first[2]>>
        ELSE first

\* Variant of AzurePrice: "retailPrice or unitPrice", which passes over a retailPrice of 0.
AzurePrice_Truthy(it) == Or(it.retailPrice, it.unitPrice)

\* Line 106: retailPrice unless it is None, else unitPrice.
AzurePrice(it) == IF it.retailPrice # None THEN it.retailPrice ELSE it.unitPrice

\* Line 113: (price * 83) if isinstance(price, (int, float)) else None
AzurePricePerHour(price) == IF IsNumber(price) THEN Num(price.v * 83) ELSE None

\* Lines 108-116: the record appended for item it.
AzureRecord(it) ==
    [csp |-> "Azure",
     sku |-> OrStr(it.armSkuName, it.skuName),
     vcpu |-> AzureSpecs(it)[1],
     memoryGb |-> AzureSpecs(it)[2],
     pricePerHour |-> AzurePricePerHour(AzurePrice(it)),
     skuId |-> OrStr(it.armSkuName, OrStr(it.skuId, it.skuName)),
     raw |-> it]

\* Lines 91-116: the for loop over a page's Items, appending to results.
RECURSIVE AzureAppend(_, _)
AzureAppend(res, items) ==
    IF items = <<>>
    THEN res
    ELSE AzureAppend(Append(res, AzureRecord(Head(items))), Tail(items))

\* Variant of AzureNextUrl: the link is not followed.
AzureNextUrl_Stop(u, page) == 0

\* Line 118: url = j.get("NextPageLink"); the link of page u names page u + 1.
AzureNextUrl(u, page) == IF page.NextPageLink THEN u + 1 ELSE 0

-----------------------------------------------------------------------------
(* fetch_aws (lines 123-217).                                              *)

\* Lines 168-171: int(attrs.get("vcpu")) if attrs.get("vcpu") else None; None when int() raises.
AwsVcpu(attrs) ==
    IF Truthy(attrs.vcpu)
    THEN IF IntOk(attrs.vcpu) THEN Num(IntOf(attrs.vcpu)) ELSE None
    ELSE None

\* Lines 172-181.  A memory string is [k |-> "text", toks |-> its white-space separated
\* words]; a string of white space only has no words and split()[0] raises.
AwsRam(attrs) ==
    IF attrs.memory.k = "text"
    THEN IF attrs.memory.toks = <<>>
         THEN None
         ELSE IF FloatOk(attrs.memory.toks[1])
              THEN Num(FloatOf(attrs.memory.toks[1]))
              ELSE None
    ELSE IF Truthy(attrs.memoryGiB)
         THEN IF FloatOk(attrs.memoryGiB) THEN Num(FloatOf(attrs.memoryGiB)) ELSE None
         ELSE None

\* Lines 198-203: the first currency of pricePerUnit whose value float() accepts.
AwsAnyCurrency(ppu) ==
    IF FloatOk(ppu.INR) THEN Num(FloatOf(ppu.INR))
    ELSE IF FloatOk(ppu.USD) THEN Num(FloatOf(ppu.USD) * 83)
    ELSE IF FloatOk(ppu.CNY) THEN Num(FloatOf(ppu.CNY))
    ELSE None

\* Lines 184-205.  od is the OnDemand entry of the sku: present (sku in od_terms),
\* wellformed (it has a first term with a first price dimension), ppu its pricePerUnit.
AwsPrice(od) ==
    IF ~od.present THEN None
    ELSE IF ~od.wellformed THEN None
    ELSE IF Truthy(od.ppu.INR)
         THEN IF FloatOk(od.ppu.INR) THEN Num(FloatOf(od.ppu.INR)) ELSE None
    ELSE IF Truthy(od.ppu.USD)
         THEN IF FloatOk(od.ppu.USD) THEN Num(FloatOf(od.ppu.USD) * 83) ELSE None
    ELSE AwsAnyCurrency(od.ppu)

\* Lines 207-215: the record appended for product e = [sku, p, od].
AwsRecord(e) ==
    [csp |-> "AWS",
     sku |-> OrStr(e.p.attributes.instanceType, e.p.attributes.InstanceType),
     vcpu |-> AwsVcpu(e.p.attributes),
     memoryGb |-> AwsRam(e.p.attributes),
     pricePerHour |-> AwsPrice(e.od),
     skuId |-> e.sku,
     raw |-> e.p]

\* A value of the product on which int(), float() or split()[0] raises.
AwsRaises(e) ==
    \/ (Truthy(e.p.attributes.vcpu) /\ ~IntOk(e.p.attributes.vcpu))
    \/ (e.p.attributes.memory.k = "text"
        /\ (e.p.attributes.memory.toks = <<>> \/ ~FloatOk(e.p.attributes.memory.toks[1])))

\* Variant of AwsLoop: no try/except around the parsing, the loop ending at the first
\* product on which it raises.
RECURSIVE AwsLoop_Abort(_, _)
AwsLoop_Abort(res, products) ==
    IF products = <<>>
    THEN res
    ELSE IF Head(products).p.attributes.servicecode # "AmazonEC2"
         THEN AwsLoop_Abort(res, Tail(products))
         ELSE IF AwsRaises(Head(products))
              THEN res
              ELSE AwsLoop_Abort(Append(res, AwsRecord(Head(products))), Tail(products))

\* Lines 160-215: the for loop over products.items().
RECURSIVE AwsLoop(_, _)
AwsLoop(res, products) ==
    IF products = <<>>
    THEN res
    ELSE IF Head(products).p.attributes.servicecode # "AmazonEC2"
         THEN AwsLoop(res, Tail(products))
         ELSE AwsLoop(Append(res, AwsRecord(Head(products))), Tail(products))

\* fetch_aws on the replies of the network: [list, warn].
\*   resp.idx = "error"     the index request or its .json() raised
\*   resp.idx = "products"  the index holds "products"
\*   resp.idx = "offers"    the index names a currentVersionUrl; resp.big = "error" when
\*                          that request or its .json() raised, else "file"
\*   resp.idx = "nourl"     neither
fetch_aws(resp) ==
    IF resp.idx = "error"
    THEN [list |-> <<>>, warn |-> <<"AWS offers index fetch failed">>]
    ELSE IF resp.idx = "products"
    THEN [list |-> AwsLoop(<<>>, resp.products), warn |-> <<>>]
    ELSE IF resp.idx = "offers"
    THEN IF resp.big = "error"
         THEN [list |-> <<>>, warn |-> <<"Failed to fetch AWS products file">>]
         ELSE [list |-> AwsLoop(<<>>, resp.products), warn |-> <<>>]
    ELSE [list |-> <<>>,
          warn |-> <<"AWS offers index lacks 'products' and no currentVersionUrl found.">>]

-----------------------------------------------------------------------------
(* fetch_gcp (lines 221-287).                                              *)

\* Line 239: the key is taken for a machine key.
GcpMachineKey(key) ==
    \/ ContainsLower(key, <<"s", "t", "a", "n", "d", "a", "r", "d">>)
    \/ ContainsLower(key, <<"n", "1">>)
    \/ ContainsLower(key, <<"n", "2">>)
    \/ StartsWith(key, <<"C", "P", "-", "C", "O", "M", "P", "U", "T", "E", "E", "N", "G",
                         "I", "N", "E", "-", "V", "M", "I", "M", "A", "G", "E">>)

\* Line 260: r'(\d+)(?:$|-)' matches at i.
GcpMatchAt(key, i) ==
    /\ IsDigit(key[i])
    /\ (RunEnd(key, i) = Len(key) \/ key[RunEnd(key, i) + 1] = "-")

\* Lines 258-267: vcpu = int(m.group(1)) of the leftmost match of re.search.
GcpVcpu(key) ==
    IF \E i \in 1..Len(key) : GcpMatchAt(key, i)
    THEN LET i == CHOOSE a \in 1..Len(key) :
                      /\ GcpMatchAt(key, a)
                      /\ \A b \in 1..(a - 1) : ~GcpMatchAt(key, b)
         IN Num(DigitsValue(key, i, RunEnd(key, i)) * Unit)
    ELSE None

\* Line 265: ram = round(vcpu * 3.75, 2), set only when the pattern matched.
GcpRam(vcpu) == IF vcpu = None THEN None ELSE Num((vcpu.v * 375) \div 100)

\* Lines 243-255.  A dict value is [k |-> "dict", IN_, india, US, usd, price] (IN_ for the key "IN"); any other
\* value is a JSON scalar.
GcpPriceIn(value) ==
    IF value.k = "dict" THEN Or(value.IN_, value.india) ELSE None

GcpPriceUsd(value) ==
    IF value.k = "dict"
    THEN Or(value.US, Or(value.usd, value.price))
    ELSE IF FloatOk(value) THEN Num(FloatOf(value)) ELSE None

\* Lines 269-276.
GcpUnitPrice(price_in, price_usd) ==
    IF Truthy(price_in)
    THEN IF FloatOk(price_in) THEN Num(FloatOf(price_in)) ELSE None
    ELSE IF Truthy(price_usd)
         THEN IF FloatOk(price_usd) THEN Num(FloatOf(price_usd) * 83) ELSE None
         ELSE None

\* Lines 278-286.  sku and skuId are the key itself.
GcpRecord(e) ==
    [csp |-> "GCP",
     sku |-> e.key,
     vcpu |-> GcpVcpu(e.key),
     memoryGb |-> GcpRam(GcpVcpu(e.key)),
     pricePerHour |-> GcpUnitPrice(GcpPriceIn(e.value), GcpPriceUsd(e.value)),
     skuId |-> e.key,
     raw |-> e.value]

\* Lines 237-286: the for loop over data.items().
RECURSIVE GcpLoop(_, _)
GcpLoop(res, data) ==
    IF data = <<>>
    THEN res
    ELSE IF GcpMachineKey(Head(data).key)
         THEN GcpLoop(Append(res, GcpRecord(Head(data))), Tail(data))
         ELSE GcpLoop(res, Tail(data))

\* fetch_gcp on the reply of the network: [list, warn].
\*   resp.kind = "error"    requests.get raised
\*   resp.kind = "nonjson"  safe_json_get gave None, or the JSON value is empty
\*   resp.kind = "data"     a non-empty JSON object, resp.data its items in order
fetch_gcp(resp) ==
    IF resp.kind = "error"
    THEN [list |-> <<>>, warn |-> <<"GCP pricelist fetch error">>]
    ELSE IF resp.kind = "nonjson" \/ resp.data = <<>>
    THEN [list |-> <<>>,
          warn |-> <<"GCP pricelist returned non-JSON or empty response. GCP matching will be skipped.">>]
    ELSE [list |-> GcpLoop(<<>>, resp.data), warn |-> <<>>]

-----------------------------------------------------------------------------
(* The inputs the model draws.                                             *)

Providers == {"Azure", "AWS", "GCP"}

\* Slider positions (lines 295-296), as fixed-point numbers.
VCpuChoices == {1 * Unit, 2 * Unit}
RamChoices == {4 * Unit, 6 * Unit}

\* All sequences over S of length at most n.
SeqsUpTo(S, n) == UNION {[1..k -> S] : k \in 0..n}

\* Texts: "2 vCPU", "4 GiB", "D2 v3", "1vcpu, 6gib".
Text2Vcpu == <<"2", " ", "v", "C", "P", "U">>
Text4Gib == <<"4", " ", "G", "i", "B">>
TextD2v3 == <<"D", "2", " ", "v", "3">>
Text1Vcpu6Gib == <<"1", "v", "c", "p", "u", ",", " ", "6", "g", "i", "b">>

\* Azure items the paged catalog is built from: one that states its size, one that
\* does not (the usual case of the retail API).
ItemSized ==
    [meterName |-> Text2Vcpu, productName |-> Text4Gib,
     retailPrice |-> Num(2 * Unit), unitPrice |-> Num(3 * Unit),
     armSkuName |-> "Standard_D2", skuName |-> "D2", skuId |-> "id-1"]

ItemPlain ==
    [meterName |-> TextD2v3, productName |-> <<>>,
     retailPrice |-> None, unitPrice |-> Num(3 * Unit),
     armSkuName |-> "", skuName |-> "D2 v3", skuId |-> "id-2"]

AzureItemKinds == {ItemSized, ItemPlain}

AzurePages ==
    [Items : SeqsUpTo(AzureItemKinds, MaxItems), NextPageLink : BOOLEAN]

\* Azure items for the per-item check: every combination of the fields line 93-114 read.
UnitItems ==
    [meterName : {<<>>, Text2Vcpu, TextD2v3},
     productName : {<<>>, Text4Gib, Text1Vcpu6Gib},
     retailPrice : {None, Num(0), Num(2 * Unit), Bad},
     unitPrice : {None, Num(3 * Unit), Bad},
     armSkuName : {"", "Standard_D2"},
     skuName : {"D2"},
     skuId : {"id-1"}]

\* Catalogs for the check of find_best_match: every combination of absent, numeric
\* and non-numeric vcpu and memoryGb; the sku names the position in the catalog.
SkuNames == <<"sku1", "sku2", "sku3", "sku4", "sku5">>

UnitSpecs ==
    {None, Num(1 * Unit), Num(2 * Unit), Bad} \X {None, Num(4 * Unit), Num(6 * Unit), Bad}

UnitInstance(i, spec) ==
    [csp |-> "AWS", sku |-> SkuNames[i], vcpu |-> spec[1], memoryGb |-> spec[2],
     pricePerHour |-> None, skuId |-> SkuNames[i], raw |-> None]

UnitCatalogs ==
    {[i \in 1..Len(f) |-> UnitInstance(i, f[i])] : f \in SeqsUpTo(UnitSpecs, MaxInst)}

\* AWS products.
Text(toks) == [k |-> "text", toks |-> toks]
Ppu(inr, usd, cny) == [INR |-> inr, USD |-> usd, CNY |-> cny]
NoTerm == [present |-> FALSE, wellformed |-> FALSE, ppu |-> Ppu(None, None, None)]
Term(ppu) == [present |-> TRUE, wellformed |-> TRUE, ppu |-> ppu]
BrokenTerm == [present |-> TRUE, wellformed |-> FALSE, ppu |-> Ppu(None, None, None)]

AwsProduct(code, type, vcpu, memory, memoryGiB, od) ==
    [p |-> [attributes |-> [servicecode |-> code, instanceType |-> type,
                            InstanceType |-> "", vcpu |-> vcpu, memory |-> memory,
                            memoryGiB |-> memoryGiB]],
     od |-> od]

AwsProductKinds ==
    {AwsProduct("AmazonEC2", "t3.small", Str(1 * Unit),
                Text(<<Str(4 * Unit), Bad>>), None, Term(Ppu(Str(5 * Unit), None, None))),
     AwsProduct("AmazonEC2", "t3.medium", Str(2 * Unit),
                Text(<<Str(6 * Unit), Bad>>), None, Term(Ppu(None, Str(1 * Unit), None))),
     AwsProduct("AmazonEC2", "x.badvcpu", Bad,
                Text(<<Str(4 * Unit), Bad>>), None, Term(Ppu(Str(5 * Unit), None, None))),
     AwsProduct("AmazonEC2", "x.badmem", Str(2 * Unit),
                Text(<<Bad>>), None, Term(Ppu(None, None, Str(7 * Unit)))),
     AwsProduct("AmazonEC2", "x.blankmem", Str(1 * Unit),
                Text(<<>>), Str(4 * Unit), BrokenTerm),
     AwsProduct("AmazonEC2", "x.badprice", Str(2 * Unit),
                Text(<<Str(4 * Unit), Bad>>), None, Term(Ppu(Bad, Str(1 * Unit), None))),
     AwsProduct("AmazonEC2", "x.nosize", None,
                None, Str(6 * Unit), NoTerm),
     AwsProduct("AmazonS3", "", None, None, None, NoTerm)}

\* products.items(): the products in the order of the file, the sku naming the position.
AwsProductLists ==
    {[i \in 1..Len(f) |-> [sku |-> SkuNames[i], p |-> f[i].p, od |-> f[i].od]] :
        f \in SeqsUpTo(AwsProductKinds, MaxProducts)}

AwsResponses ==
    {[idx |-> "error", big |-> "none", products |-> <<>>],
     [idx |-> "nourl", big |-> "none", products |-> <<>>],
     [idx |-> "offers", big |-> "error", products |-> <<>>]}
    \cup [idx : {"products"}, big : {"none"}, products : AwsProductLists]
    \cup [idx : {"offers"}, big : {"file"}, products : AwsProductLists]

AwsFailure(resp) == resp.idx = "error" \/ (resp.idx = "offers" /\ resp.big = "error")

\* GCP price list entries.
GcpDict(inr, us) ==
    [k |-> "dict", IN_ |-> inr, india |-> None, US |-> us, usd |-> None, price |-> None]

KeyN1Standard8 == <<"n", "1", "-", "s", "t", "a", "n", "d", "a", "r", "d", "-", "8">>
KeyStandard4 == <<"s", "t", "a", "n", "d", "a", "r", "d", "-", "4">>
KeyN2Highmem == <<"n", "2", "h", "i", "g", "h", "m", "e", "m">>
KeyUs == <<"u", "s">>
KeyVmImage ==
    <<"C", "P", "-", "C", "O", "M", "P", "U", "T", "E", "E", "N", "G", "I", "N", "E", "-",
      "V", "M", "I", "M", "A", "G", "E", "-", "F", "1", "-", "M", "I", "C", "R", "O">>

GcpEntries ==
    {[key |-> KeyN1Standard8, value |-> GcpDict(None, Num(1 * Unit))],
     [key |-> KeyStandard4, value |-> GcpDict(Num(5 * Unit), Num(1 * Unit))],
     [key |-> KeyN2Highmem, value |-> Num(2 * Unit)],
     [key |-> KeyUs, value |-> Bad],
     [key |-> KeyVmImage, value |-> GcpDict(Bad, None)]}

\* data.items(): a JSON object holds each key once.
GcpData ==
    {d \in SeqsUpTo(GcpEntries, MaxKeys) :
        \A i, j \in 1..Len(d) : i # j => d[i].key # d[j].key}

GcpResponses ==
    {[kind |-> "error", data |-> <<>>], [kind |-> "nonjson", data |-> <<>>]}
    \cup [kind : {"data"}, data : GcpData \ {<<>>}]

GcpFailure(resp) == resp.kind \in {"error", "nonjson"}

-----------------------------------------------------------------------------
(* The "Compare Pricing" handler (lines 298-333).                          *)

\* Variant of HandlerResults: results.append(match) without the "if match".
HandlerResults_Always(res, m) == Append(res, m)

\* Lines 307-308: if match: results.append(match)
HandlerResults(res, m) == IF m # None THEN Append(res, m) ELSE res

\* Lines 309-311: the status message of a block.
HandlerStatus(msgs, csp, m) ==
    IF m # None
    THEN Append(msgs, [csp |-> csp, kind |-> "matched", sku |-> m.sku])
    ELSE Append(msgs, [csp |-> csp, kind |-> "no match", sku |-> ""])

Init ==
    /\ pc = "start"
    /\ csp_selection \in SUBSET Providers
    /\ vCPU \in VCpuChoices
    /\ RAM \in RamChoices
    /\ results = <<>>
    /\ status_msgs = <<>>
    /\ inst_list = <<>>
    /\ match = None
    /\ raw = <<>>
    /\ warnings = <<>>
    /\ failed = {}
    /\ url = 0
    /\ served = <<>>
    /\ requests = <<>>

\* Lines 298-300: the button is pressed.
Click ==
    /\ pc = "start"
    /\ pc' = "azure"
    /\ results' = <<>>
    /\ status_msgs' = <<>>
    /\ UNCHANGED <<csp_selection, vCPU, RAM, inst_list, match, raw, warnings, failed,
                   url, served, requests>>

\* Lines 302-304 and 72-76: the Azure block is entered, or passed over.
AzureBlock ==
    /\ pc = "azure"
    /\ IF "Azure" \in csp_selection
       THEN /\ pc' = "azure_fetch"
            /\ inst_list' = <<>>
            /\ url' = 1
       ELSE /\ pc' = "aws"
            /\ UNCHANGED <<inst_list, url>>
    /\ UNCHANGED <<csp_selection, vCPU, RAM, results, status_msgs, match, raw, warnings,
                   failed, served, requests>>

\* Lines 78-83: requests.get raises; the loop is left.
AzureRequestFails ==
    /\ pc = "azure_fetch"
    /\ url # 0
    /\ requests' = Append(requests, url)
    /\ warnings' = Append(warnings, "Azure request failed")
    /\ failed' = failed \cup {"Azure"}
    /\ pc' = "azure_match"
    /\ UNCHANGED <<csp_selection, vCPU, RAM, results, status_msgs, inst_list, match, raw,
                   url, served>>

\* Lines 85-88: the reply is not JSON, or is an empty JSON value; the loop is left.
AzureBadReply ==
    /\ pc = "azure_fetch"
    /\ url # 0
    /\ requests' = Append(requests, url)
    /\ warnings' = Append(warnings,
                          "Azure returned non-JSON or empty response; stopped Azure fetch.")
    /\ failed' = failed \cup {"Azure"}
    /\ pc' = "azure_match"
    /\ UNCHANGED <<csp_selection, vCPU, RAM, results, status_msgs, inst_list, match, raw,
                   url, served>>

\* Lines 78-118: one pass of the while loop on a page; the loop is left when the page
\* carries no NextPageLink.  The server's chain of pages ends by page MaxPages.
AzurePage ==
    /\ pc = "azure_fetch"
    /\ url # 0
    /\ \E page \in AzurePages :
        /\ url >= MaxPages => ~page.NextPageLink
        /\ requests' = Append(requests, url)
        /\ served' = Append(served, page)
        /\ inst_list' = AzureAppend(inst_list, page.Items)
        /\ url' = AzureNextUrl(url, page)
        /\ pc' = IF AzureNextUrl(url, page) = 0 THEN "azure_match" ELSE "azure_fetch"
    /\ UNCHANGED <<csp_selection, vCPU, RAM, results, status_msgs, match, raw, warnings,
                   failed>>

\* Lines 306-311.
AzureMatch ==
    /\ pc = "azure_match"
    /\ match' = find_best_match(inst_list, vCPU, RAM)
    /\ results' = HandlerResults(results, find_best_match(inst_list, vCPU, RAM))
    /\ status_msgs' =
           HandlerStatus(status_msgs, "Azure", find_best_match(inst_list, vCPU, RAM))
    /\ pc' = "aws"
    /\ UNCHANGED <<csp_selection, vCPU, RAM, inst_list, raw, warnings, failed, url,
                   served, requests>>

\* Lines 313-314 and 125: the AWS block is entered, or passed over.  The pages and
\* requests of the Azure fetch belong to a call that has returned.
AwsBlock ==
    /\ pc = "aws"
    /\ IF "AWS" \in csp_selection
       THEN /\ pc' = "aws_fetch"
            /\ inst_list' = <<>>
            /\ url' = 0
            /\ served' = <<>>
            /\ requests' = <<>>
       ELSE /\ pc' = "gcp"
            /\ UNCHANGED <<inst_list, url, served, requests>>
    /\ UNCHANGED <<csp_selection, vCPU, RAM, results, status_msgs, match, raw, warnings,
                   failed>>

\* Line 315: aws_list = fetch_aws(), on whatever the network answers.
AwsFetch ==
    /\ pc = "aws_fetch"
    /\ \E resp \in AwsResponses :
        /\ raw' = resp
        /\ inst_list' = fetch_aws(resp).list
        /\ warnings' = warnings \o fetch_aws(resp).warn
        /\ failed' = IF AwsFailure(resp) THEN failed \cup {"AWS"} ELSE failed
    /\ pc' = "aws_match"
    /\ UNCHANGED <<csp_selection, vCPU, RAM, results, status_msgs, match, url, served,
                   requests>>

\* Lines 317-322.
AwsMatch ==
    /\ pc = "aws_match"
    /\ match' = find_best_match(inst_list, vCPU, RAM)
    /\ results' = HandlerResults(results, find_best_match(inst_list, vCPU, RAM))
    /\ status_msgs' =
           HandlerStatus(status_msgs, "AWS", find_best_match(inst_list, vCPU, RAM))
    /\ pc' = "gcp"
    /\ UNCHANGED <<csp_selection, vCPU, RAM, inst_list, raw, warnings, failed, url,
                   served, requests>>

\* Lines 324-325 and 234: the GCP block is entered, or passed over.
GcpBlock ==
    /\ pc = "gcp"
    /\ IF "GCP" \in csp_selection
       THEN /\ pc' = "gcp_fetch"
            /\ inst_list' = <<>>
            /\ raw' = <<>>
            /\ url' = 0
            /\ served' = <<>>
            /\ requests' = <<>>
       ELSE /\ pc' = "done"
            /\ UNCHANGED <<inst_list, raw, url, served, requests>>
    /\ UNCHANGED <<csp_selection, vCPU, RAM, results, status_msgs, match, warnings,
                   failed>>

\* Line 326: gcp_list = fetch_gcp(), on whatever the network answers.
GcpFetch ==
    /\ pc = "gcp_fetch"
    /\ \E resp \in GcpResponses :
        /\ raw' = resp
        /\ inst_list' = fetch_gcp(resp).list
        /\ warnings' = warnings \o fetch_gcp(resp).warn
        /\ failed' = IF GcpFailure(resp) THEN failed \cup {"GCP"} ELSE failed
    /\ pc' = "gcp_match"
    /\ UNCHANGED <<csp_selection, vCPU, RAM, results, status_msgs, match, url, served,
                   requests>>

\* Lines 328-333.
GcpMatch ==
    /\ pc = "gcp_match"
    /\ match' = find_best_match(inst_list, vCPU, RAM)
    /\ results' = HandlerResults(results, find_best_match(inst_list, vCPU, RAM))
    /\ status_msgs' =
           HandlerStatus(status_msgs, "GCP", find_best_match(inst_list, vCPU, RAM))
    /\ pc' = "done"
    /\ UNCHANGED <<csp_selection, vCPU, RAM, inst_list, raw, warnings, failed, url,
                   served, requests>>

Next ==
    \/ Click
    \/ AzureBlock
    \/ AzureRequestFails
    \/ AzureBadReply
    \/ AzurePage
    \/ AzureMatch
    \/ AwsBlock
    \/ AwsFetch
    \/ AwsMatch
    \/ GcpBlock
    \/ GcpFetch
    \/ GcpMatch

Spec == Init /\ [][Next]_vars

\* The Azure block alone: the handler up to the end of its first block, with Azure
\* among the providers chosen and the sliders at one position (fetch_azure reads neither).
AzureInit ==
    /\ Init
    /\ "Azure" \in csp_selection
    /\ vCPU = 1 * Unit
    /\ RAM = 4 * Unit

AzureNext ==
    \/ Click
    \/ AzureBlock
    \/ AzureRequestFails
    \/ AzureBadReply
    \/ AzurePage
    \/ AzureMatch

\* The script runs on: every request carries a timeout (line 80) and every loop is
\* over a finite payload, so a step that can be taken is taken.
FairAzureSpec == AzureInit /\ [][AzureNext]_vars /\ WF_vars(AzureNext)

-----------------------------------------------------------------------------
(* The calls checked on their own: find_best_match on any catalog, and the *)
(* normalisation of one Azure item.                                        *)

UnitInit ==
    /\ pc \in {"find_call", "item_call"}
    /\ IF pc = "find_call"
       THEN /\ inst_list \in UnitCatalogs
            /\ vCPU \in VCpuChoices
            /\ RAM \in RamChoices
            /\ raw = <<>>
       ELSE /\ inst_list = <<>>
            /\ vCPU = 1 * Unit
            /\ RAM = 4 * Unit
            /\ raw \in UnitItems
    /\ csp_selection = {}
    /\ results = <<>>
    /\ status_msgs = <<>>
    /\ match = None
    /\ warnings = <<>>
    /\ failed = {}
    /\ url = 0
    /\ served = <<>>
    /\ requests = <<>>

\* match = find_best_match(inst_list, vCPU, RAM)
CallFind ==
    /\ pc = "find_call"
    /\ match' = find_best_match(inst_list, vCPU, RAM)
    /\ pc' = "find_ret"
    /\ UNCHANGED <<csp_selection, vCPU, RAM, results, status_msgs, inst_list, raw,
                   warnings, failed, url, served, requests>>

\* The body of fetch_azure's for loop on the one item raw.
CallItem ==
    /\ pc = "item_call"
    /\ inst_list' = AzureAppend(<<>>, <<raw>>)
    /\ pc' = "item_ret"
    /\ UNCHANGED <<csp_selection, vCPU, RAM, results, status_msgs, match, raw, warnings,
                   failed, url, served, requests>>

UnitNext == CallFind \/ CallItem

UnitSpec == UnitInit /\ [][UnitNext]_vars

-----------------------------------------------------------------------------
(* Properties of find_best_match, under UnitSpec.                          *)

\* A record the matcher can score: both values present and numeric.
Scorable(inst) ==
    /\ inst.vcpu # None
    /\ inst.memoryGb # None
    /\ FloatOk(inst.vcpu)
    /\ FloatOk(inst.memoryGb)

\* |vcpu - req_cpu| + |memoryGb - req_ram|, the distance without a weight.
PlainDistance(inst) == Abs(inst.vcpu.v - vCPU) + Abs(inst.memoryGb.v - RAM)

\* Four times |vcpu - req_cpu| + |memoryGb - req_ram| / 4: the order the weighted
\* distance (W = 4) gives, kept in whole numbers.
WeightedDistance(inst) == 4 * Abs(inst.vcpu.v - vCPU) + Abs(inst.memoryGb.v - RAM)

Returned == pc = "find_ret"

\* C1, as stated: whenever some record has both vcpu and memoryGb, the record returned
\* is one of the catalog whose weighted distance (W = 4) is minimal among them.
C1_WeightedMinimal ==
    (Returned /\ \E i \in 1..Len(inst_list) : Scorable(inst_list[i]))
    => /\ match # None
       /\ \E i \in 1..Len(inst_list) : inst_list[i] = match
       /\ \A j \in 1..Len(inst_list) :
              Scorable(inst_list[j])
              => WeightedDistance(match) <= WeightedDistance(inst_list[j])

\* C1, amended: whenever some record has both vcpu and memoryGb (numeric), the record
\* returned is one of the catalog whose unweighted distance
\* |vcpu - req_cpu| + |memoryGb - req_ram| is minimal among them.
C1_PlainMinimal ==
    (Returned /\ \E i \in 1..Len(inst_list) : Scorable(inst_list[i]))
    => /\ match # None
       /\ \E i \in 1..Len(inst_list) : inst_list[i] = match
       /\ Scorable(match)
       /\ \A j \in 1..Len(inst_list) :
              Scorable(inst_list[j])
              => PlainDistance(match) <= PlainDistance(inst_list[j])

\* The case of C1: the returned record is not the one the weighted distance prefers.
C1_Witness ==
    /\ Returned
    /\ match # None
    /\ \E j \in 1..Len(inst_list) :
           /\ Scorable(inst_list[j])
           /\ WeightedDistance(inst_list[j]) < WeightedDistance(match)
           /\ PlainDistance(match) < PlainDistance(inst_list[j])

\* C2: the record returned always has both vcpu and memoryGb present.
C2_NeverAbsentField ==
    (Returned /\ match # None) => (match.vcpu # None /\ match.memoryGb # None)

\* The case of C2: a record lacking one field sits where it would otherwise win (its
\* other field equals the requirement) and another record is returned.
C2_Witness ==
    /\ Returned
    /\ match # None
    /\ match.vcpu # None
    /\ match.memoryGb # None
    /\ PlainDistance(match) > 0
    /\ \E i \in 1..Len(inst_list) :
           \/ (inst_list[i].vcpu = None /\ inst_list[i].memoryGb = Num(RAM))
           \/ (inst_list[i].memoryGb = None /\ inst_list[i].vcpu = Num(vCPU))

\* C3: among the scorable records that share the minimal score, the earliest of the
\* catalog is returned.
C3_EarliestOfTies ==
    (Returned /\ match # None)
    => \E i \in 1..Len(inst_list) :
           /\ inst_list[i] = match
           /\ \A j \in 1..(i - 1) :
                  Scorable(inst_list[j])
                  => PlainDistance(inst_list[j]) > PlainDistance(match)

\* The case of C3: a later record ties with the one returned.
C3_Witness ==
    /\ Returned
    /\ match # None
    /\ \E i, j \in 1..Len(inst_list) :
           /\ i < j
           /\ inst_list[i] = match
           /\ Scorable(inst_list[j])
           /\ PlainDistance(inst_list[j]) = PlainDistance(match)

-----------------------------------------------------------------------------
(* Price of an Azure record, under UnitSpec.                               *)

\* C8: pricePerHour is 83 times retailPrice whenever retailPrice is present (0
\* included, unitPrice present or not), 83 times unitPrice only when retailPrice is
\* absent, and absent when the chosen value is not a number.
C8_RetailPriceFirst ==
    pc = "item_ret"
    => /\ Len(inst_list) = 1
       /\ (raw.retailPrice.k = "num"
              => inst_list[1].pricePerHour = Num(raw.retailPrice.v * 83))
       /\ (raw.retailPrice.k = "bad" => inst_list[1].pricePerHour = None)
       /\ ((raw.retailPrice = None /\ raw.unitPrice.k = "num")
              => inst_list[1].pricePerHour = Num(raw.unitPrice.v * 83))
       /\ ((raw.retailPrice = None /\ raw.unitPrice.k # "num")
              => inst_list[1].pricePerHour = None)

\* The case of C8: retailPrice is 0, unitPrice is not, and the price is 0.
C8_Witness ==
    /\ pc = "item_ret"
    /\ raw.retailPrice = Num(0)
    /\ raw.unitPrice = Num(3 * Unit)
    /\ inst_list[1].pricePerHour = Num(0)

-----------------------------------------------------------------------------
(* Properties of the handler and the fetchers, under Spec and              *)
(* FairAzureSpec.                                                          *)

\* The state right after the block of provider p: inst_list and match are p's.
AfterMatch(p) ==
    /\ p \in csp_selection
    /\ \/ (p = "Azure" /\ pc = "aws")
       \/ (p = "AWS" /\ pc = "gcp")
       \/ (p = "GCP" /\ pc = "done")

\* The provider's list is in hand: fetched and about to be matched, or just matched.
HasList(p) ==
    \/ AfterMatch(p)
    \/ (p = "Azure" /\ pc = "azure_match")
    \/ (p = "AWS" /\ pc = "aws_match")
    \/ (p = "GCP" /\ pc = "gcp_match")

LacksField(inst) == inst.vcpu = None \/ inst.memoryGb = None

MatchedCount == Cardinality({i \in 1..Len(status_msgs) : status_msgs[i].kind = "matched"})

\* C4: on an empty catalog, or one whose every record lacks vcpu or memoryGb, the result
\* is None, the block's status is "no match" and nothing is added to results.
C4_NoMatchOnNothingEligible ==
    \A p \in Providers :
        (AfterMatch(p) /\ \A i \in 1..Len(inst_list) : LacksField(inst_list[i]))
        => /\ match = None
           /\ status_msgs # <<>>
           /\ status_msgs[Len(status_msgs)].csp = p
           /\ status_msgs[Len(status_msgs)].kind = "no match"
           /\ Len(results) = MatchedCount

\* The case of C4: a fetched, non-empty AWS catalog with no eligible record.
C4_Witness ==
    /\ AfterMatch("AWS")
    /\ "AWS" \notin failed
    /\ inst_list # <<>>
    /\ \A i \in 1..Len(inst_list) : LacksField(inst_list[i])
    /\ status_msgs[Len(status_msgs)].kind = "no match"

\* The items of a sequence of pages, in page order then item order.
RECURSIVE Flatten(_)
Flatten(pages) == IF pages = <<>> THEN <<>> ELSE Head(pages).Items \o Flatten(Tail(pages))

\* C5: what the caller receives from a failed fetch differs from what any successful
\* fetch returns, and no find_best_match result (no status) comes from a failed fetch.
C5_FailureIsDistinct ==
    /\ \A i \in 1..Len(status_msgs) : status_msgs[i].csp \notin failed
    /\ (HasList("Azure") /\ "Azure" \in failed)
       => \A page \in AzurePages :
              ~page.NextPageLink
              => inst_list # AzureAppend(<<>>, Flatten(served) \o page.Items)
    /\ (HasList("AWS") /\ "AWS" \in failed)
       => \A resp \in AwsResponses : ~AwsFailure(resp) => inst_list # fetch_aws(resp).list
    /\ (HasList("GCP") /\ "GCP" \in failed)
       => \A resp \in GcpResponses : ~GcpFailure(resp) => inst_list # fetch_gcp(resp).list

\* The fetch_azure loop has ended without a failed request or an unusable reply.
AzureFetched == pc = "azure_match" /\ "Azure" \notin failed

C6_Pages ==
    AzureFetched
    => /\ Len(served) >= 1
       /\ requests = [i \in 1..Len(served) |-> i]
       /\ \A i \in 1..(Len(served) - 1) : served[i].NextPageLink
       /\ ~served[Len(served)].NextPageLink
       /\ [i \in 1..Len(inst_list) |-> inst_list[i].raw] = Flatten(served)

\* C6: on a chain of pages, each but the last carrying a NextPageLink, fetch_azure
\* requests every page once and in order, stops after the first page without a link,
\* returns one record per item in page order then item order, and the loop ends.
C6_FollowsEveryLink ==
    /\ []C6_Pages
    /\ (pc = "azure_fetch") ~> (pc = "azure_match")

\* The case of C6: a chain of two pages or more, read to its end.
C6_Witness ==
    /\ AzureFetched
    /\ Len(served) >= 2
    /\ Len(served[1].Items) >= 1
    /\ Len(served[2].Items) >= 2
    /\ Len(inst_list) >= 3

\* The AWS products file was read: raw.products went through the loop of fetch_aws.
AwsParsed ==
    /\ HasList("AWS")
    /\ raw.idx \in {"products", "offers"}
    /\ ~AwsFailure(raw)

Ec2Products == SelectSeq(raw.products, LAMBDA e : e.p.attributes.servicecode = "AmazonEC2")

VcpuUnparseable(e) == e.p.attributes.vcpu.k = "bad"

RamUnparseable(e) ==
    /\ e.p.attributes.memory.k = "text"
    /\ (e.p.attributes.memory.toks = <<>> \/ e.p.attributes.memory.toks[1].k = "bad")

PriceUnparseable(e) ==
    /\ e.od.present
    /\ (~e.od.wellformed \/ e.od.ppu.INR.k = "bad")

\* The list without the record of sku.
Without(list, sku) == SelectSeq(list, LAMBDA inst : inst.skuId # sku)

\* One record per EC2 product, in the order of the file.
EveryProductEmitted ==
    /\ Len(inst_list) = Len(Ec2Products)
    /\ \A i \in 1..Len(inst_list) :
           /\ inst_list[i].skuId = Ec2Products[i].sku
           /\ inst_list[i].raw = Ec2Products[i].p

\* C7, as stated: a product whose vcpu, memory or price cannot be parsed stops nothing,
\* and the match is the one of the catalog without that product.
C7_UnparseableEntryDropped ==
    AwsParsed
    => /\ EveryProductEmitted
       /\ AfterMatch("AWS")
          => \A i \in 1..Len(Ec2Products) :
                 (\/ VcpuUnparseable(Ec2Products[i])
                  \/ RamUnparseable(Ec2Products[i])
                  \/ PriceUnparseable(Ec2Products[i]))
                 => match = find_best_match(Without(inst_list, Ec2Products[i].sku), vCPU, RAM)

\* C7, amended: a product whose vcpu, memory or price cannot be parsed stops nothing:
\* every EC2 product still yields its record.  When the vcpu or the memory is the
\* unparseable value the match is the one of the catalog without that product; when it
\* is the price, the record has no price and stays a candidate.
C7_UnparseableSpecDropped ==
    AwsParsed
    => /\ EveryProductEmitted
       /\ \A i \in 1..Len(Ec2Products) :
              PriceUnparseable(Ec2Products[i]) => inst_list[i].pricePerHour = None
       /\ AfterMatch("AWS")
          => \A i \in 1..Len(Ec2Products) :
                 (VcpuUnparseable(Ec2Products[i]) \/ RamUnparseable(Ec2Products[i]))
                 => match = find_best_match(Without(inst_list, Ec2Products[i].sku), vCPU, RAM)

\* The case of C7: an unparseable product comes first and a later product is matched.
C7_Witness ==
    /\ AwsParsed
    /\ AfterMatch("AWS")
    /\ Len(Ec2Products) >= 2
    /\ (VcpuUnparseable(Ec2Products[1]) \/ RamUnparseable(Ec2Products[1]))
    /\ match # None
    /\ match.skuId = Ec2Products[2].sku

\* The integer of the key's trailing "-<n>", or None when the key has no such suffix.
TrailingSuffix(key) ==
    IF \E i \in 2..Len(key) :
           key[i - 1] = "-" /\ \A j \in i..Len(key) : IsDigit(key[j])
    THEN LET i == CHOOSE a \in 2..Len(key) :
                      key[a - 1] = "-" /\ \A j \in a..Len(key) : IsDigit(key[j])
         IN Num(DigitsValue(key, i, Len(key)) * Unit)
    ELSE None

\* C10: the vcpu of a GCP record is the integer of its key's trailing "-<n>", memoryGb
\* is 3.75 times it, and the two are present or absent together.
C10_VcpuFromTrailingSuffix ==
    HasList("GCP")
    => \A i \in 1..Len(inst_list) :
           /\ inst_list[i].vcpu = TrailingSuffix(inst_list[i].sku)
           /\ (inst_list[i].vcpu = None <=> inst_list[i].memoryGb = None)
           /\ (inst_list[i].vcpu # None
                  => 100 * inst_list[i].memoryGb.v = 375 * inst_list[i].vcpu.v)

====
